---- MODULE Spec2Model ----
(***************************************************************************)
(* Model of the LocalDesk agent runner: the agent loop of runClaude, its   *)
(* streaming tool-call assembler, the conversation-history builder, the    *)
(* settings loader, and the tool executor's dispatch boundary and          *)
(* working-directory check.                                                *)
(*                                                                         *)
(* Representation of JavaScript values:                                    *)
(*   - a text that the code concatenates or trims (assistant text, prompt, *)
(*     tool output, error message) is a sequence of tokens; the empty      *)
(*     string is << >>; the tokens " " and "\n" are whitespace;            *)
(*   - a tool-call argument string is a TLA+ string, concatenated with \o; *)
(*   - an absent (undefined) string field is "", which the code treats the *)
(*     same way through its `|| ...` defaults;                             *)
(*   - the sparse array toolCalls is a sequence whose holes are Hole.      *)
(***************************************************************************)
EXTENDS Integers, Sequences, FiniteSets, TLC

VARIABLES
    pc,               \* position of the background task of runClaude
    guiSettings,      \* what loadApiSettings() returns
    log,              \* sessionStore.getSessionHistory(session.id).messages
    prompt,           \* options.prompt
    aborted,          \* the flag set by handle.abort()
    iterationCount,   \* iterationCount of the main loop
    requests,         \* number of client.chat.completions.create calls made
    messages,         \* the initial history followed by what the latest
                      \* iteration pushed, up to the moment its request is
                      \* answered (the code only ever pushes to the list and
                      \* reads it to send it, so older pushes are dropped)
    assistantMessage, \* text accumulated from the stream of this iteration
    toolCalls,        \* the sparse array of tool-call accumulators
    contentStarted,   \* content_block_start was sent in this iteration
    nChunks,          \* chunks delivered by the stream of this iteration
    toolIdx,          \* position of the tool execution loop in toolCalls
    toolResults,      \* toolResults of this iteration
    events,           \* onEvent calls made since the iteration began
    db,               \* sessionStore.recordMessage calls since it began
    nResult,          \* 'result' events emitted in the run
    nCompleted,       \* session.status 'completed' events emitted in the run
    nError,           \* session.status 'error' events emitted in the run
    abortSeen,        \* the poll point that found aborted set: "stream"
                      \* (between chunks), "tools" (between executions),
                      \* "while" (the loop condition), "" for none yet
    allHadTools,      \* every request so far was answered by a complete
                      \* response that assembled at least one tool call
    lastResult,       \* the last call of executeTool and what it returned
    received,         \* tool-call fragments fed to the assembler, in order
    sessionUpdates,   \* onSessionUpdate calls made in the run
    initTools,        \* the tools list of the system init message
    requestTools,     \* the tools parameter of the latest model request
    cwd,              \* this.cwd of the ToolExecutor
    filePath,         \* the argument of isPathSafe
    pathChecked,      \* isPathSafe has returned
    isSafe,           \* what isPathSafe returned
    webSearchTool,    \* this.webSearchTool of the ToolExecutor is not null
    extractPageTool,  \* this.extractPageTool of the ToolExecutor is not null
    savedKey,         \* tavilyApiKey in api-settings.json at present
    fetches           \* calls made to the Tavily service

vars == << pc, guiSettings, log, prompt, aborted, iterationCount, requests,
           messages, assistantMessage, toolCalls, contentStarted, nChunks,
           toolIdx, toolResults, events, db, nResult, nCompleted, nError,
           abortSeen, allHadTools, lastResult, received, sessionUpdates,
           initTools, requestTools, cwd, filePath, pathChecked, isSafe,
           webSearchTool, extractPageTool, savedKey, fetches >>

(***************************************************************************)
(* Program constant and the bounds of the model.                           *)
(***************************************************************************)
MAX_ITERATIONS == 50

\* chunks one stream delivers at most
MaxChunks == 2
\* events in a persisted log at most
MaxLog == 3
\* fragments fed to the assembler on its own at most
MaxFrags == 3

\* characters of a path given to isPathSafe at most
MaxPath == 4
\* calls the executor on its own makes to the Tavily service at most
MaxFetches == 2

(***************************************************************************)
(* Texts.                                                                  *)
(***************************************************************************)
IsSpace(tok) == tok \in {" ", "\n"}

RECURSIVE TrimStart(_)
TrimStart(t) ==
    IF t # << >> /\ IsSpace(Head(t)) THEN TrimStart(Tail(t)) ELSE t

RECURSIVE TrimEnd(_)
TrimEnd(t) ==
    IF t # << >> /\ IsSpace(t[Len(t)])
    THEN TrimEnd(SubSeq(t, 1, Len(t) - 1))
    ELSE t

\* String.prototype.trim
Trim(t) == TrimEnd(TrimStart(t))

(***************************************************************************)
(* Conversation history builder (runClaude, "Build conversation history"). *)
(***************************************************************************)
Msg(role, content) ==
    [role |-> role, content |-> content, tool_calls |-> << >>,
     tool_call_id |-> "", name |-> ""]

\* getSystemPrompt(cwd): the instantiated template prompts/system.txt
SystemPrompt == << "system.txt" >>

\* getInitialPrompt(task): the template prompts/initial_prompt.txt with its
\* placeholders {current_date}, {memory_section} and {task} replaced
InitialPrompt(task) == << "initial_prompt.txt[", "date", "|" >> \o task \o << "]" >>

\* a persisted event; a field the event does not carry is empty
LogEvent(type, p, text, output) ==
    [type |-> type, prompt |-> p, text |-> text, output |-> output]

\* the text a tool_result event adds to the pending assistant message
ToolOutputBlock(output) == << "\n", "[Tool Output: " >> \o output \o << "]", "\n" >>

\* variant: the pending assistant message is pushed even when it is blank
FlushBlank(msgs, cur) == Append(msgs, Msg("assistant", Trim(cur)))

\* messages after the pending assistant message was flushed (or not)
Flush(msgs, cur) ==
    IF Trim(cur) # << >> THEN Append(msgs, Msg("assistant", Trim(cur))) ELSE msgs

\* the loop over history.messages and the final flush; yields the messages
\* and lastUserPrompt
RECURSIVE ReplayLog(_, _, _, _)
ReplayLog(evs, msgs, cur, last) ==
    IF evs = << >>
    THEN [messages |-> Flush(msgs, cur), lastUserPrompt |-> last]
    ELSE LET msg == Head(evs) IN
         CASE msg.type = "user_prompt" ->
                ReplayLog(Tail(evs),
                          Append(Flush(msgs, cur), Msg("user", msg.prompt)),
                          IF Trim(cur) # << >> THEN << >> ELSE cur,
                          msg.prompt)
           [] msg.type = "text" ->
                ReplayLog(Tail(evs), msgs, cur \o msg.text, last)
           [] msg.type = "tool_result" ->
                ReplayLog(Tail(evs), msgs, cur \o ToolOutputBlock(msg.output), last)
           [] OTHER ->
                ReplayLog(Tail(evs), msgs, cur, last)

\* variant: the current prompt is pushed without comparing it
AddCurrentPromptAlways(msgs, p, lastUserPrompt) ==
    Append(msgs, Msg("user", InitialPrompt(p)))

\* "Add current prompt ONLY if it's different from the last one in history"
AddCurrentPrompt(msgs, p, lastUserPrompt) ==
    IF p # lastUserPrompt THEN Append(msgs, Msg("user", InitialPrompt(p))) ELSE msgs

\* the message list runClaude builds before the loop
BuildHistory(L, p) ==
    LET r == ReplayLog(L, << Msg("system", SystemPrompt) >>, << >>, << >>)
    IN  AddCurrentPrompt(r.messages, p, r.lastUserPrompt)

(***************************************************************************)
(* Streaming assembler of tool calls (runClaude, "Tool calls").            *)
(***************************************************************************)
\* toolCall.index === undefined
Undefined == 0 - 1

Hole == [filled |-> FALSE, id |-> "", name |-> "", arguments |-> ""]

\* `call_${Date.now()}_${toolCall.index}`
GenId(index) == "call_T_" \o ToString(index)

RECURSIVE Holes(_)
Holes(n) == IF n <= 0 THEN << >> ELSE << Hole >> \o Holes(n - 1)

\* toolCalls[index] is an accumulator (neither a hole nor past the end)
Filled(tc, index) == index < Len(tc) /\ tc[index + 1].filled

\* toolCalls[index] = v on a JavaScript array
SetAt(tc, index, v) ==
    IF index < Len(tc)
    THEN [tc EXCEPT ![index + 1] = v]
    ELSE tc \o Holes(index - Len(tc)) \o << v >>

\* the accumulator created for the first fragment of a slot
NewAccumulator(f) ==
    [filled |-> TRUE,
     id |-> IF f.id # "" THEN f.id ELSE GenId(f.index),
     name |-> f.name,
     arguments |-> f.arguments]

\* variant: a later fragment replaces the argument string instead of
\* extending it
ApplyFragmentOverwrite(tc, f) ==
    IF f.index = Undefined THEN tc
    ELSE IF ~Filled(tc, f.index) THEN SetAt(tc, f.index, NewAccumulator(f))
    ELSE IF f.arguments # ""
         THEN [tc EXCEPT ![f.index + 1].arguments = f.arguments]
         ELSE tc

\* one element of delta.tool_calls
ApplyFragment(tc, f) ==
    IF f.index = Undefined THEN tc
    ELSE IF ~Filled(tc, f.index) THEN SetAt(tc, f.index, NewAccumulator(f))
    ELSE IF f.arguments # ""
         THEN [tc EXCEPT ![f.index + 1].arguments = @ \o f.arguments]
         ELSE tc

\* for (const toolCall of delta.tool_calls)
RECURSIVE ApplyFragments(_, _)
ApplyFragments(tc, fs) ==
    IF fs = << >> THEN tc ELSE ApplyFragments(ApplyFragment(tc, Head(fs)), Tail(fs))

(***************************************************************************)
(* JSON.parse on the argument strings the model's fragments can form.      *)
(***************************************************************************)
ArgOpen == "{\"pa"
ArgClose == "th\":\"x\"}"
ArgNull == "null"

\* the fragments concatenate to valid JSON only as {"path":"x"} and null
\* (e.g. `{"pa`, `th":"x"}{"pa` and `nullnull` are syntax errors)
JsonParse(s) ==
    IF s = ArgOpen \o ArgClose \/ s = "{}" THEN "object"
    ELSE IF s = ArgNull THEN "null"
    ELSE "SyntaxError"

\* JSON.parse(toolCall.function.arguments || '{}')
ParseArguments(arguments) == JsonParse(IF arguments = "" THEN "{}" ELSE arguments)

(***************************************************************************)
(* Tool executor (ToolExecutor.executeTool).                               *)
(***************************************************************************)
Registry == { "Bash", "Read", "Write", "Edit", "Glob", "Grep",
              "WebSearch", "ExtractPageContent", "Memory" }

\* what a tool implementation (tools/*.ts, not modelled) does when called
BodyOutcomes == { "output", "no_output", "failure", "throw" }

Returned(success, output, error) ==
    [thrown |-> FALSE, success |-> success, output |-> output, error |-> error]
Thrown(error) ==
    [thrown |-> TRUE, success |-> FALSE, output |-> << >>, error |-> error]

\* await executeXTool(args, context)
RunBody(body) ==
    CASE body = "output"    -> Returned(TRUE, << "out" >>, << >>)
      [] body = "no_output" -> Returned(TRUE, << >>, << >>)
      [] body = "failure"   -> Returned(FALSE, << >>, << "tool error" >>)
      [] body = "throw"     -> Thrown(<< "boom" >>)

\* variant: the web tool is used without testing that it exists
ExecuteWebUnchecked(what, tool, body) ==
    IF body = "throw"
    THEN Returned(FALSE, << >>, << what, " failed: ", "boom" >>)
    ELSE Returned(TRUE, << "formatted results" >>, << >>)

\* executeWebSearch / executeExtractPage: search() and extract() return
\* results or throw, formatResults always returns a text
ExecuteWeb(what, tool, body) ==
    IF ~tool
    THEN Returned(FALSE, << >>,
                  << what, " is not available. Please configure Tavily API key in Settings." >>)
    ELSE IF body = "throw"
         THEN Returned(FALSE, << >>, << what, " failed: ", "boom" >>)
         ELSE Returned(TRUE, << "formatted results" >>, << >>)

\* the switch of executeTool
Dispatch(toolName, body, webTools) ==
    CASE toolName = "WebSearch"          -> ExecuteWeb("Web search", webTools, body)
      [] toolName = "ExtractPageContent" -> ExecuteWeb("Page extraction", webTools, body)
      [] toolName \in Registry \ { "WebSearch", "ExtractPageContent" } -> RunBody(body)
      [] OTHER -> Returned(FALSE, << >>, << "Unknown tool: ", toolName >>)

\* variant: the switch without the surrounding try/catch
ExecuteToolNoCatch(toolName, body, webTools) == Dispatch(toolName, body, webTools)

\* executeTool: the switch inside try, the catch turning an exception into
\* a failed result
ExecuteTool(toolName, body, webTools) ==
    LET r == Dispatch(toolName, body, webTools)
    IN  IF r.thrown THEN Returned(FALSE, << >>, r.error) ELSE r

(***************************************************************************)
(* The working-directory check of the executor.  A path string is a        *)
(* sequence of characters; the functions of Node's path module are those   *)
(* of a POSIX host.                                                        *)
(***************************************************************************)
\* the segments of str between its "/" characters, cur being the segment
\* under construction
RECURSIVE Segments(_, _)
Segments(str, cur) ==
    IF str = << >> THEN << cur >>
    ELSE IF Head(str) = "/" THEN << cur >> \o Segments(Tail(str), << >>)
    ELSE Segments(Tail(str), Append(cur, Head(str)))

\* normalisation of the segments of an absolute path: empty and "."
\* segments vanish, ".." removes the segment before it and is dropped at
\* the root
RECURSIVE NormalizeSegments(_, _)
NormalizeSegments(segs, acc) ==
    IF segs = << >> THEN acc
    ELSE IF Head(segs) = << >> \/ Head(segs) = << "." >>
         THEN NormalizeSegments(Tail(segs), acc)
    ELSE IF Head(segs) = << ".", "." >>
         THEN NormalizeSegments(Tail(segs),
                  IF acc = << >> THEN acc ELSE SubSeq(acc, 1, Len(acc) - 1))
    ELSE NormalizeSegments(Tail(segs), Append(acc, Head(segs)))

\* the segments joined by "/"
RECURSIVE Join(_)
Join(segs) ==
    IF segs = << >> THEN << >>
    ELSE IF Len(segs) = 1 THEN Head(segs)
    ELSE Head(segs) \o << "/" >> \o Join(Tail(segs))

\* path.isAbsolute(str)
IsAbsolute(str) == str # << >> /\ Head(str) = "/"

\* the normalised segments of path.resolve(base, str), base being absolute
ResolvedSegments(base, str) ==
    NormalizeSegments(
        Segments(IF IsAbsolute(str) THEN str ELSE base \o << "/" >> \o str,
                 << >>),
        << >>)

\* path.resolve(base, str)
Resolve(base, str) == << "/" >> \o Join(ResolvedSegments(base, str))

\* length of the longest common prefix of two segment sequences
RECURSIVE CommonPrefix(_, _)
CommonPrefix(a, b) ==
    IF a = << >> \/ b = << >> THEN 0
    ELSE IF Head(a) # Head(b) THEN 0
    ELSE 1 + CommonPrefix(Tail(a), Tail(b))

\* the segments of path.relative(from, to), both absolute: one ".." for
\* every segment of from below the common ancestor, then the rest of to
RelativeSegments(from, to) ==
    LET f == ResolvedSegments(<< "/" >>, from)
        t == ResolvedSegments(<< "/" >>, to)
        c == CommonPrefix(f, t)
    IN  [k \in 1..(Len(f) - c) |-> << ".", "." >>] \o SubSeq(t, c + 1, Len(t))

\* path.relative(from, to)
Relative(from, to) == Join(RelativeSegments(from, to))

\* str.startsWith(prefix)
StartsWith(str, prefix) ==
    Len(str) >= Len(prefix) /\ SubSeq(str, 1, Len(prefix)) = prefix

\* ToolExecutor.isPathSafe(filePath), c being this.cwd
IsPathSafe(c, path) ==
    LET absolutePath == Resolve(c, path)
        relativePath == Relative(c, absolutePath)
    IN  ~StartsWith(relativePath, << ".", "." >>) /\ ~IsAbsolute(relativePath)

(***************************************************************************)
(* Events sent to the observer, records given to the persistence           *)
(* collaborator, and messages pushed by the loop.                          *)
(***************************************************************************)
Ev(type, sub, id, name, text, is_error) ==
    [type |-> type, sub |-> sub, id |-> id, name |-> name, text |-> text,
     is_error |-> is_error]

SystemInit == Ev("system", "init", "", "", << >>, FALSE)
BlockStart == Ev("stream_event", "content_block_start", "", "", << >>, FALSE)
BlockDelta(text) == Ev("stream_event", "content_block_delta", "", "", text, FALSE)
BlockStop == Ev("stream_event", "content_block_stop", "", "", << >>, FALSE)
AssistantText(text) == Ev("assistant", "text", "", "", text, FALSE)
AssistantToolUse(call) == Ev("assistant", "tool_use", call.id, call.name, << >>, FALSE)
ResultEvent(text) == Ev("result", "success", "", "", text, FALSE)
StatusCompleted == Ev("session.status", "completed", "", "", << >>, FALSE)
StatusError(err) == Ev("session.status", "error", "", "", err, TRUE)
PermissionRequest(call) == Ev("permission.request", "", call.id, call.name, << >>, FALSE)
UserToolResult(call, r) ==
    Ev("user", "tool_result", call.id, "",
       IF r.success THEN r.output ELSE << "Error: " >> \o r.error, ~r.success)

\* saveToDb(type, content)
DbRecord(type, id, text) == [type |-> type, id |-> id, text |-> text]

\* the assistant message pushed when the response carries tool calls
AssistantMsg(text, tc) ==
    [role |-> "assistant", content |-> text, tool_calls |-> tc,
     tool_call_id |-> "", name |-> ""]

\* variant: the tool-result message refers to the call by its tool name
ToolMsgByName(call, r) ==
    [role |-> "tool",
     content |-> IF r.success
                 THEN (IF r.output # << >> THEN r.output ELSE << "Success" >>)
                 ELSE << "Error: " >> \o r.error,
     tool_calls |-> << >>, tool_call_id |-> call.name, name |-> call.name]

\* the tool-result message pushed for one executed call
ToolMsg(call, r) ==
    [role |-> "tool",
     content |-> IF r.success
                 THEN (IF r.output # << >> THEN r.output ELSE << "Success" >>)
                 ELSE << "Error: " >> \o r.error,
     tool_calls |-> << >>, tool_call_id |-> call.id, name |-> call.name]

\* String(error) of the errors the loop can meet
ConfigError == << "Error: ", "API settings not configured. Please set Base URL and Model in Settings." >>
MaxIterationsError == << "Error: ", "Max iterations reached" >>
RequestError == << "Error: ", "request failed" >>
StreamError == << "Error: ", "stream failed" >>
SyntaxError == << "SyntaxError: ", "invalid JSON" >>
TypeError == << "TypeError: ", "cannot read properties" >>

(***************************************************************************)
(* The tool definitions, by name.                                          *)
(***************************************************************************)
ALL_TOOL_DEFINITIONS ==
    << "Bash", "Read", "Write", "Edit", "Glob", "Grep", "WebSearch",
       "ExtractPageContent", "Memory" >>

(***************************************************************************)
(* Inputs of the agent loop.                                               *)
(***************************************************************************)
\* an ApiSettings snapshot; present is FALSE for null
Settings(present, baseUrl, model, tavilyApiKey, enableMemory) ==
    [present |-> present, baseUrl |-> baseUrl, model |-> model,
     tavilyApiKey |-> tavilyApiKey, enableMemory |-> enableMemory]

\* api-settings.json: whether it exists, whether JSON.parse accepts it, and
\* the fields it holds ("" for an absent field)
SettingsFile(exists, parses, apiKey, baseUrl, model, enableMemory) ==
    [exists |-> exists, parses |-> parses, apiKey |-> apiKey,
     baseUrl |-> baseUrl, model |-> model, enableMemory |-> enableMemory]

\* loadApiSettings()
LoadApiSettings(file) ==
    IF ~file.exists THEN Settings(FALSE, "", "", "", FALSE)
    ELSE IF ~file.parses THEN Settings(FALSE, "", "", "", FALSE)
    ELSE IF file.apiKey = "" /\ file.baseUrl = "" /\ file.model = ""
         THEN Settings(FALSE, "", "", "", FALSE)
    ELSE Settings(TRUE, file.baseUrl, file.model, "", file.enableMemory)

\* the settings files of the loop: absent, unreadable, and every combination
\* of present and absent apiKey, baseUrl and model
LoopSettingsFiles ==
    { SettingsFile(FALSE, FALSE, "", "", "", FALSE),
      SettingsFile(TRUE, FALSE, "", "", "", FALSE) }
    \cup { SettingsFile(TRUE, TRUE, k, u, m, FALSE) :
             k \in {"", "key"}, u \in {"", "http://h"}, m \in {"", "m"} }

LoopSettings == { LoadApiSettings(f) : f \in LoopSettingsFiles }

\* getTools(settings)
GetTools(settings) ==
    IF ~(settings.present /\ settings.enableMemory)
    THEN SelectSeq(ALL_TOOL_DEFINITIONS, LAMBDA name : name # "Memory")
    ELSE ALL_TOOL_DEFINITIONS

\* export const TOOLS
TOOLS == ALL_TOOL_DEFINITIONS

Fragment(index, id, name, arguments) ==
    [index |-> index, id |-> id, name |-> name, arguments |-> arguments]

\* a stream chunk: without delta, or with a text delta (<< >> when absent)
\* and the fragments of delta.tool_calls
NoDelta == [delta |-> FALSE, content |-> << >>, tool_calls |-> << >>]
Chunk(content, fs) == [delta |-> TRUE, content |-> content, tool_calls |-> fs]

LoopFragments ==
    { Fragment(0, id, n, a) :
        id \in {"", "c1"}, n \in {"Read", "Nope"},
        a \in {"", ArgOpen, ArgClose, ArgNull} }
    \cup { Fragment(1, "", n, a) :
        n \in {"Read", "Nope"}, a \in {"", ArgOpen, ArgClose, ArgNull} }

LoopChunks ==
    { NoDelta }
    \cup { Chunk(c, << >>) : c \in { << "Hi" >>, << " " >> } }
    \cup { Chunk(c, << f >>) : c \in { << >>, << "Hi" >> }, f \in LoopFragments }

(***************************************************************************)
(* The agent loop (the background task of runClaude).                      *)
(***************************************************************************)
\* variant: the catch block sends the error status and the loop goes on
CatchAndRetry(evs, err) ==
    /\ events' = Append(evs, StatusError(err))
    /\ nError' = nError + 1
    /\ pc' = "loopcheck"

\* the catch block at the loop's outer boundary
Catch(evs, err) ==
    /\ events' = Append(evs, StatusError(err))
    /\ nError' = nError + 1
    /\ pc' = "done"

WebTools == guiSettings.tavilyApiKey # ""

\* the error reading one element of toolCalls raises in the loop that sends
\* the tool_use messages: `.function` of a hole, or JSON.parse
ToolUseThrows(call) ==
    IF ~call.filled THEN TypeError
    ELSE IF ParseArguments(call.arguments) = "SyntaxError" THEN SyntaxError
    ELSE << >>

\* the error one element raises in the execution loop before executeTool is
\* called: as above, or `toolArgs.explanation` of null
ToolStartThrows(call) ==
    IF ToolUseThrows(call) # << >> THEN ToolUseThrows(call)
    ELSE IF ParseArguments(call.arguments) = "null" THEN TypeError
    ELSE << >>

\* position of the first element on which the tool_use loop throws, 0 if none
FirstThrow(tc) ==
    LET bad == { k \in 1..Len(tc) : ToolUseThrows(tc[k]) # << >> }
    IN  IF bad = {} THEN 0 ELSE CHOOSE k \in bad : \A j \in bad : k <= j

\* toolCalls.length === 0
NoToolCalls(tc) == Len(tc) = 0

\* variant: the zero-tool-call branch without its result message
FinalEventsNoResult(text) == << AssistantText(text), StatusCompleted >>

\* what the zero-tool-call branch sends to the observer
FinalEvents(text) == << AssistantText(text), ResultEvent(text), StatusCompleted >>

\* variant: the loop condition does not read the abort flag
LoopGuardIgnoresAbort == iterationCount < MAX_ITERATIONS

\* while (!aborted && iterationCount < MAX_ITERATIONS)
LoopGuard == ~aborted /\ iterationCount < MAX_ITERATIONS

\* if (iterationCount >= MAX_ITERATIONS) throw
BudgetExceeded == iterationCount >= MAX_ITERATIONS

iterVars == << assistantMessage, toolCalls, contentStarted, nChunks, toolIdx,
               toolResults, abortSeen >>
pathVars == << cwd, filePath, pathChecked, isSafe >>
execVars == << webSearchTool, extractPageTool, savedKey, fetches >>
inputVars == << guiSettings, log, prompt, received, pathVars, execVars >>
setupVars == << sessionUpdates, initTools >>

\* lastResult before executeTool was called in the iteration
NoCall == [called |-> FALSE, toolName |-> "", body |-> "",
           result |-> Returned(TRUE, << >>, << >>)]

\* variant: the system init message and the session update come before the
\* settings check
StartInitFirst ==
    /\ pc = "init"
    /\ initTools' = TOOLS
    /\ sessionUpdates' = sessionUpdates + 1
    /\ IF ~guiSettings.present \/ guiSettings.baseUrl = "" \/ guiSettings.model = ""
       THEN /\ Catch(Append(events, SystemInit), ConfigError)
            /\ UNCHANGED messages
       ELSE /\ messages' = BuildHistory(log, prompt)
            /\ events' = Append(events, SystemInit)
            /\ pc' = "loopcheck"
            /\ UNCHANGED nError
    /\ UNCHANGED << inputVars, requestTools, iterVars, aborted, iterationCount,
                    requests, db, nResult, nCompleted, allHadTools, lastResult >>

\* settings check, history, system init message
Start ==
    /\ pc = "init"
    /\ IF ~guiSettings.present \/ guiSettings.baseUrl = "" \/ guiSettings.model = ""
       THEN /\ Catch(events, ConfigError)
            /\ UNCHANGED << messages, setupVars >>
       ELSE /\ messages' = BuildHistory(log, prompt)
            /\ events' = Append(events, SystemInit)
            /\ initTools' = TOOLS
            /\ sessionUpdates' = sessionUpdates + 1
            /\ pc' = "loopcheck"
            /\ UNCHANGED nError
    /\ UNCHANGED << inputVars, requestTools, iterVars, aborted, iterationCount, requests, db,
                    nResult, nCompleted, allHadTools, lastResult >>

\* the loop condition; a new iteration submits its request
LoopCheck ==
    /\ pc = "loopcheck"
    /\ IF LoopGuard
       THEN /\ iterationCount' = iterationCount + 1
            /\ requests' = requests + 1
            /\ assistantMessage' = << >>
            /\ toolCalls' = << >>
            /\ contentStarted' = FALSE
            /\ nChunks' = 0
            /\ toolIdx' = 0
            /\ toolResults' = << >>
            /\ events' = << >>
            /\ db' = << >>
            /\ lastResult' = NoCall
            /\ requestTools' = TOOLS
            /\ pc' = "request"
            /\ UNCHANGED abortSeen
       ELSE /\ pc' = "exit"
            /\ abortSeen' = IF aborted THEN "while" ELSE abortSeen
            /\ UNCHANGED << assistantMessage, toolCalls, contentStarted,
                            nChunks, toolIdx, toolResults, iterationCount,
                            requests, events, db, lastResult, requestTools >>
    /\ UNCHANGED << inputVars, setupVars, aborted, messages, nResult, nCompleted, nError,
                    allHadTools >>

\* variant: the loop ends without the budget check
ExitSilently ==
    /\ pc = "exit"
    /\ pc' = "done"
    /\ UNCHANGED << events, nError >>
    /\ UNCHANGED << inputVars, setupVars, requestTools, iterVars, aborted,
                    iterationCount, requests, messages, db, nResult,
                    nCompleted, allHadTools, lastResult >>

\* after the loop
Exit ==
    /\ pc = "exit"
    /\ IF BudgetExceeded
       THEN Catch(events, MaxIterationsError)
       ELSE /\ pc' = "done"
            /\ UNCHANGED << events, nError >>
    /\ UNCHANGED << inputVars, setupVars, requestTools, iterVars, aborted, iterationCount, requests,
                    messages, db, nResult, nCompleted, allHadTools, lastResult >>

\* await client.chat.completions.create(...) returns the stream
CreateResolves ==
    /\ pc = "request"
    /\ pc' = "stream"
    /\ messages' = BuildHistory(log, prompt)
    /\ UNCHANGED << inputVars, setupVars, requestTools, iterVars, aborted, iterationCount, requests,
                    events, db, nResult, nCompleted, nError, allHadTools,
                    lastResult >>

\* await client.chat.completions.create(...) throws
CreateRejects ==
    /\ pc = "request"
    /\ Catch(events, RequestError)
    /\ allHadTools' = FALSE
    /\ UNCHANGED << inputVars, setupVars, requestTools, iterVars, aborted, iterationCount, requests,
                    messages, db, nResult, nCompleted, lastResult >>

\* variant: content_block_start is sent with every text delta
TextEventsAlwaysStart(started, content) ==
    IF content = << >> THEN << >> ELSE << BlockStart, BlockDelta(content) >>

\* the events one chunk's text delta sends
TextEvents(started, content) ==
    IF content = << >> THEN << >>
    ELSE (IF started THEN << >> ELSE << BlockStart >>) \o << BlockDelta(content) >>

\* one pass of `for await (const chunk of stream)`
StreamChunk ==
    /\ pc = "stream"
    /\ nChunks < MaxChunks
    /\ nChunks' = nChunks + 1
    /\ \E chunk \in LoopChunks :
         IF aborted
         THEN /\ abortSeen' = "stream"
              /\ pc' = "poststream"
              /\ UNCHANGED << assistantMessage, toolCalls, contentStarted, events >>
         ELSE /\ events' = events \o TextEvents(contentStarted, chunk.content)
              /\ contentStarted' = (contentStarted \/ chunk.content # << >>)
              /\ assistantMessage' = assistantMessage \o chunk.content
              /\ toolCalls' = ApplyFragments(toolCalls, chunk.tool_calls)
              /\ UNCHANGED << pc, abortSeen >>
    /\ UNCHANGED << inputVars, setupVars, requestTools, toolIdx, toolResults, aborted, iterationCount,
                    requests, messages, db, nResult, nCompleted, nError,
                    allHadTools, lastResult >>

\* the stream closes
StreamEnd ==
    /\ pc = "stream"
    /\ pc' = "poststream"
    /\ UNCHANGED << inputVars, setupVars, requestTools, iterVars, aborted, iterationCount, requests,
                    messages, events, db, nResult, nCompleted, nError,
                    allHadTools, lastResult >>

\* the stream throws
StreamFails ==
    /\ pc = "stream"
    /\ Catch(events, StreamError)
    /\ allHadTools' = FALSE
    /\ UNCHANGED << inputVars, setupVars, requestTools, iterVars, aborted, iterationCount, requests,
                    messages, db, nResult, nCompleted, lastResult >>

RECURSIVE ToolUseEvents(_, _)
ToolUseEvents(tc, n) ==
    IF n = 0 THEN << >> ELSE Append(ToolUseEvents(tc, n - 1), AssistantToolUse(tc[n]))

RECURSIVE ToolUseRecords(_, _)
ToolUseRecords(tc, n) ==
    IF n = 0 THEN << >>
    ELSE Append(ToolUseRecords(tc, n - 1), DbRecord("tool_use", tc[n].id, << >>))

\* from the end of the stream loop to the start of the execution loop
PostStream ==
    /\ pc = "poststream"
    /\ LET stopped == events \o (IF contentStarted THEN << BlockStop >> ELSE << >>)
           k == FirstThrow(toolCalls)
           n == IF k = 0 THEN Len(toolCalls) ELSE k - 1
           sent == stopped \o ToolUseEvents(toolCalls, n)
       IN  IF NoToolCalls(toolCalls)
           THEN /\ events' = stopped \o FinalEvents(assistantMessage)
                /\ db' = Append(db, DbRecord("text", "", assistantMessage))
                /\ nResult' = nResult + 1
                /\ nCompleted' = nCompleted + 1
                /\ pc' = "exit"
                /\ allHadTools' = FALSE
                /\ UNCHANGED << messages, nError >>
           ELSE /\ messages' = Append(BuildHistory(log, prompt),
                                      AssistantMsg(assistantMessage, toolCalls))
                /\ db' = db \o (IF Trim(assistantMessage) # << >>
                                THEN << DbRecord("text", "", assistantMessage) >>
                                ELSE << >>)
                          \o ToolUseRecords(toolCalls, n)
                /\ IF k = 0
                   THEN /\ events' = sent
                        /\ pc' = "toolloop"
                        /\ UNCHANGED nError
                   ELSE Catch(sent, ToolUseThrows(toolCalls[k]))
                /\ UNCHANGED << nResult, nCompleted, allHadTools >>
    /\ UNCHANGED << inputVars, setupVars, requestTools, iterVars, aborted, iterationCount, requests,
                    lastResult >>

\* variant: the execution loop stops after the first call
ToolLoopFirstOnly ==
    /\ pc = "toolloop"
    /\ IF toolIdx >= 1 \/ aborted
       THEN /\ messages' = messages \o toolResults
            /\ pc' = "loopcheck"
            /\ abortSeen' = IF toolIdx < Len(toolCalls) THEN "tools" ELSE abortSeen
            /\ UNCHANGED << events, nError >>
       ELSE LET call == toolCalls[toolIdx + 1] IN
            /\ IF ToolStartThrows(call) # << >>
               THEN Catch(events, ToolStartThrows(call))
               ELSE /\ events' = Append(events, PermissionRequest(call))
                    /\ pc' = "tool"
                    /\ UNCHANGED nError
            /\ UNCHANGED << messages, abortSeen >>
    /\ UNCHANGED << inputVars, setupVars, requestTools, assistantMessage,
                    toolCalls, contentStarted, nChunks, toolIdx, toolResults,
                    aborted, iterationCount, requests, db, nResult, nCompleted,
                    allHadTools, lastResult >>

\* variant: the execution loop calls executeTool without the permission
\* request
ToolLoopNoPermission ==
    /\ pc = "toolloop"
    /\ IF toolIdx >= Len(toolCalls) \/ aborted
       THEN /\ messages' = messages \o toolResults
            /\ pc' = "loopcheck"
            /\ abortSeen' = IF toolIdx < Len(toolCalls) THEN "tools" ELSE abortSeen
            /\ UNCHANGED << events, nError >>
       ELSE LET call == toolCalls[toolIdx + 1] IN
            /\ IF ToolStartThrows(call) # << >>
               THEN Catch(events, ToolStartThrows(call))
               ELSE /\ pc' = "tool"
                    /\ UNCHANGED << events, nError >>
            /\ UNCHANGED << messages, abortSeen >>
    /\ UNCHANGED << inputVars, setupVars, requestTools, assistantMessage,
                    toolCalls, contentStarted, nChunks, toolIdx, toolResults,
                    aborted, iterationCount, requests, db, nResult, nCompleted,
                    allHadTools, lastResult >>

\* the head of the execution loop: abort poll, permission request, and the
\* call of executeTool; or the end of the loop and the push of toolResults
ToolLoop ==
    /\ pc = "toolloop"
    /\ IF toolIdx >= Len(toolCalls) \/ aborted
       THEN /\ messages' = messages \o toolResults
            /\ pc' = "loopcheck"
            /\ abortSeen' = IF toolIdx < Len(toolCalls) THEN "tools" ELSE abortSeen
            /\ UNCHANGED << events, nError >>
       ELSE LET call == toolCalls[toolIdx + 1] IN
            /\ IF ToolStartThrows(call) # << >>
               THEN Catch(events, ToolStartThrows(call))
               ELSE /\ events' = Append(events, PermissionRequest(call))
                    /\ pc' = "tool"
                    /\ UNCHANGED nError
            /\ UNCHANGED << messages, abortSeen >>
    /\ UNCHANGED << inputVars, setupVars, requestTools, assistantMessage, toolCalls, contentStarted,
                    nChunks, toolIdx, toolResults, aborted, iterationCount,
                    requests, db, nResult, nCompleted, allHadTools, lastResult >>

\* variant: a result with success false is raised as an exception
ToolReturnFailureThrows ==
    /\ pc = "tool"
    /\ \E body \in BodyOutcomes :
         LET call == toolCalls[toolIdx + 1]
             r == ExecuteTool(call.name, body, WebTools)
         IN  /\ lastResult' = [called |-> TRUE, toolName |-> call.name,
                               body |-> body, result |-> r]
             /\ IF r.thrown \/ ~r.success
                THEN /\ Catch(events, r.error)
                     /\ UNCHANGED << toolResults, db, toolIdx >>
                ELSE /\ toolResults' = Append(toolResults, ToolMsg(call, r))
                     /\ events' = Append(events, UserToolResult(call, r))
                     /\ db' = Append(db, DbRecord("tool_result", call.id, r.output))
                     /\ toolIdx' = toolIdx + 1
                     /\ pc' = "toolloop"
                     /\ UNCHANGED nError
    /\ UNCHANGED << inputVars, setupVars, requestTools, assistantMessage,
                    toolCalls, contentStarted, nChunks, abortSeen, aborted,
                    iterationCount, requests, messages, nResult, nCompleted,
                    allHadTools >>

\* await toolExecutor.executeTool(toolName, toolArgs) returns (or throws)
ToolReturn ==
    /\ pc = "tool"
    /\ \E body \in BodyOutcomes :
         LET call == toolCalls[toolIdx + 1]
             r == ExecuteTool(call.name, body, WebTools)
         IN  /\ lastResult' = [called |-> TRUE, toolName |-> call.name,
                               body |-> body, result |-> r]
             /\ IF r.thrown
                THEN /\ Catch(events, r.error)
                     /\ UNCHANGED << toolResults, db, toolIdx >>
                ELSE /\ toolResults' = Append(toolResults, ToolMsg(call, r))
                     /\ events' = Append(events, UserToolResult(call, r))
                     /\ db' = Append(db, DbRecord("tool_result", call.id,
                                 IF r.success THEN r.output ELSE << "Error: " >> \o r.error))
                     /\ toolIdx' = toolIdx + 1
                     /\ pc' = "toolloop"
                     /\ UNCHANGED nError
    /\ UNCHANGED << inputVars, setupVars, requestTools, assistantMessage, toolCalls, contentStarted,
                    nChunks, abortSeen, aborted, iterationCount, requests,
                    messages, nResult, nCompleted, allHadTools >>

\* handle.abort(), called while the task is suspended in an await
Abort ==
    /\ pc \in { "request", "stream", "tool" }
    /\ ~aborted
    /\ aborted' = TRUE
    /\ UNCHANGED << inputVars, setupVars, requestTools, iterVars, pc, iterationCount, requests, messages,
                    events, db, nResult, nCompleted, nError, allHadTools,
                    lastResult >>

\* the loop variables right after runClaude is called
LoopInit ==
    /\ pc = "init"
    /\ aborted = FALSE
    /\ iterationCount = 0
    /\ requests = 0
    /\ messages = << >>
    /\ assistantMessage = << >>
    /\ toolCalls = << >>
    /\ contentStarted = FALSE
    /\ nChunks = 0
    /\ toolIdx = 0
    /\ toolResults = << >>
    /\ events = << >>
    /\ db = << >>
    /\ nResult = 0
    /\ nCompleted = 0
    /\ nError = 0
    /\ abortSeen = ""
    /\ allHadTools = TRUE
    /\ lastResult = NoCall
    /\ sessionUpdates = 0
    /\ initTools = << >>
    /\ requestTools = << >>

\* the path check is not part of the loop's model
PathIdle ==
    /\ cwd = << "/", "a" >>
    /\ filePath = << >>
    /\ pathChecked = FALSE
    /\ isSafe = FALSE

\* new ToolExecutor(cwd, apiSettings): the web tools exist when the snapshot
\* holds a Tavily key
Constructed(apiSettings) ==
    /\ webSearchTool = (apiSettings.present /\ apiSettings.tavilyApiKey # "")
    /\ extractPageTool = (apiSettings.present /\ apiSettings.tavilyApiKey # "")
    /\ savedKey = apiSettings.tavilyApiKey
    /\ fetches = 0

Init ==
    /\ LoopInit
    /\ guiSettings \in LoopSettings
    /\ log = << >>
    /\ prompt = << "hi" >>
    /\ received = << >>
    /\ PathIdle
    /\ Constructed(guiSettings)

Next ==
    \/ Start
    \/ LoopCheck
    \/ Exit
    \/ CreateResolves
    \/ CreateRejects
    \/ StreamChunk
    \/ StreamEnd
    \/ StreamFails
    \/ PostStream
    \/ ToolLoop
    \/ ToolReturn
    \/ Abort

Spec == Init /\ [][Next]_vars

\* the steps of the background task and of its collaborators: every step
\* but abort()
Progress ==
    \/ Start
    \/ LoopCheck
    \/ Exit
    \/ CreateResolves
    \/ CreateRejects
    \/ StreamChunk
    \/ StreamEnd
    \/ StreamFails
    \/ PostStream
    \/ ToolLoop
    \/ ToolReturn

\* the runs in which abort() is never called: the task runs whenever it
\* can, and every request, stream and tool execution comes to an end
SpecLive == Init /\ [][Progress]_vars /\ WF_vars(Progress)

(***************************************************************************)
(* The history builder on its own: Start applied to every log and prompt   *)
(* within the bounds.                                                      *)
(***************************************************************************)
SeqsUpTo(S, n) == UNION { [1..k -> S] : k \in 0..n }

Prompts == { << >>, << "hi" >>, << "yo" >> }

LogEvents ==
    { LogEvent("user_prompt", p, << >>, << >>) : p \in Prompts }
    \cup { LogEvent("text", << >>, t, << >>) : t \in { << "a" >>, << " " >> } }
    \cup { LogEvent("tool_result", << >>, << >>, o) : o \in { << >>, << "out" >> } }
    \cup { LogEvent("tool_use", << >>, << >>, << >>) }

InitHistory ==
    /\ LoopInit
    /\ guiSettings = Settings(TRUE, "http://h", "m", "", FALSE)
    /\ log \in SeqsUpTo(LogEvents, MaxLog)
    /\ prompt \in Prompts
    /\ received = << >>
    /\ PathIdle
    /\ Constructed(guiSettings)

NextHistory == Start

SpecHistory == InitHistory /\ [][NextHistory]_vars

(***************************************************************************)
(* The assembler on its own: every sequence of fragments within the bounds *)
(* applied to an empty toolCalls.                                          *)
(***************************************************************************)
AsmFragments ==
    { Fragment(i, id, n, a) :
        i \in {Undefined, 0, 1}, id \in {"", "c1"}, n \in {"", "Read"},
        a \in {"", ArgOpen, ArgClose} }

InitAsm ==
    /\ LoopInit
    /\ guiSettings = Settings(TRUE, "http://h", "m", "", FALSE)
    /\ log = << >>
    /\ prompt = << "hi" >>
    /\ received = << >>
    /\ PathIdle
    /\ Constructed(guiSettings)

\* one element of delta.tool_calls arrives
FragmentArrives ==
    /\ Len(received) < MaxFrags
    /\ \E f \in AsmFragments :
         /\ toolCalls' = ApplyFragment(toolCalls, f)
         /\ received' = Append(received, f)
    /\ UNCHANGED << pc, guiSettings, log, prompt, aborted, iterationCount,
                    requests, messages, assistantMessage, contentStarted,
                    nChunks, toolIdx, toolResults, events, db, nResult,
                    nCompleted, nError, abortSeen, allHadTools, lastResult,
                    setupVars, requestTools, pathVars, execVars >>

NextAsm == FragmentArrives

SpecAsm == InitAsm /\ [][NextAsm]_vars

(***************************************************************************)
(* The working-directory check on its own: isPathSafe applied to every     *)
(* path string within the bounds, for three working directories.           *)
(***************************************************************************)
PathChars == { ".", "/", "a" }

PathInputs == SeqsUpTo(PathChars, MaxPath)

\* this.cwd is the result of resolve(cwd): absolute and normalised
WorkingDirs == { << "/" >>, << "/", "a" >>, << "/", "a", "/", "a" >> }

InitPath ==
    /\ LoopInit
    /\ guiSettings = Settings(TRUE, "http://h", "m", "", FALSE)
    /\ log = << >>
    /\ prompt = << "hi" >>
    /\ received = << >>
    /\ cwd \in WorkingDirs
    /\ filePath \in PathInputs
    /\ pathChecked = FALSE
    /\ isSafe = FALSE
    /\ Constructed(guiSettings)

\* a tool asks context.isPathSafe(filePath)
CheckPath ==
    /\ ~pathChecked
    /\ pathChecked' = TRUE
    /\ isSafe' = IsPathSafe(cwd, filePath)
    /\ UNCHANGED << pc, guiSettings, log, prompt, aborted, iterationCount,
                    requests, messages, assistantMessage, toolCalls,
                    contentStarted, nChunks, toolIdx, toolResults, events, db,
                    nResult, nCompleted, nError, abortSeen, allHadTools,
                    lastResult, received, setupVars, requestTools, cwd,
                    filePath, execVars >>

NextPath == CheckPath

SpecPath == InitPath /\ [][NextPath]_vars

(***************************************************************************)
(* The executor on its own: executeTool called with every tool name on an  *)
(* executor constructed with and without a Tavily key, while the stored    *)
(* settings may be changed.                                                *)
(***************************************************************************)
TavilyKeys == { "", "tvly-key" }

ToolNames == Registry \cup { "Nope" }

InitExec ==
    /\ LoopInit
    /\ guiSettings \in { Settings(TRUE, "http://h", "m", k, FALSE) : k \in TavilyKeys }
    /\ log = << >>
    /\ prompt = << "hi" >>
    /\ received = << >>
    /\ PathIdle
    /\ Constructed(guiSettings)

\* the field of the executor that the case of toolName reads
WebToolOf(toolName) ==
    IF toolName = "ExtractPageContent" THEN extractPageTool ELSE webSearchTool

\* search() or extract() is reached, and with it the Tavily service
ReachesService(toolName) ==
    toolName \in { "WebSearch", "ExtractPageContent" } /\ WebToolOf(toolName)

\* executeTool(toolName, args)
ExecuteCall ==
    /\ \E toolName \in ToolNames, body \in BodyOutcomes :
         /\ ReachesService(toolName) => fetches < MaxFetches
         /\ fetches' = IF ReachesService(toolName) THEN fetches + 1 ELSE fetches
         /\ lastResult' = [called |-> TRUE, toolName |-> toolName, body |-> body,
                           result |-> ExecuteTool(toolName, body, WebToolOf(toolName))]
    /\ UNCHANGED << pc, guiSettings, log, prompt, aborted, iterationCount,
                    requests, messages, assistantMessage, toolCalls,
                    contentStarted, nChunks, toolIdx, toolResults, events, db,
                    nResult, nCompleted, nError, abortSeen, allHadTools,
                    received, setupVars, requestTools, pathVars, webSearchTool,
                    extractPageTool, savedKey >>

\* saveApiSettings(settings): the stored key changes, the executor keeps the
\* snapshot it was constructed with
SaveApiSettings ==
    /\ \E k \in TavilyKeys : k # savedKey /\ savedKey' = k
    /\ UNCHANGED << pc, guiSettings, log, prompt, aborted, iterationCount,
                    requests, messages, assistantMessage, toolCalls,
                    contentStarted, nChunks, toolIdx, toolResults, events, db,
                    nResult, nCompleted, nError, abortSeen, allHadTools,
                    lastResult, received, setupVars, requestTools, pathVars,
                    webSearchTool, extractPageTool, fetches >>

NextExec == ExecuteCall \/ SaveApiSettings

SpecExec == InitExec /\ [][NextExec]_vars

(***************************************************************************)
(* Helpers of the properties.                                              *)
(***************************************************************************)
Suffix(q, n) == SubSeq(q, Len(q) - n + 1, Len(q))

OfType(q, type) == SelectSeq(q, LAMBDA e : e.type = type)

\* concatenation of the texts of the content_block_delta events of q
RECURSIVE DeltaText(_)
DeltaText(q) ==
    IF q = << >> THEN << >>
    ELSE (IF Head(q).sub = "content_block_delta" THEN Head(q).text ELSE << >>)
         \o DeltaText(Tail(q))

HasHole(tc) == \E k \in 1..Len(tc) : ~tc[k].filled

\* ids of the filled slots of tc, in ascending slot order
RECURSIVE FilledIds(_)
FilledIds(tc) ==
    IF tc = << >> THEN << >>
    ELSE (IF Head(tc).filled THEN << Head(tc).id >> ELSE << >>) \o FilledIds(Tail(tc))

RECURSIVE IdsOf(_)
IdsOf(q) == IF q = << >> THEN << >> ELSE << Head(q).id >> \o IdsOf(Tail(q))

(***************************************************************************)
(* C1: whenever the assembled response of an iteration has no tool calls,  *)
(* the loop sends one final assistant message and one result event with    *)
(* is_error false, both carrying the whole text streamed in the iteration, *)
(* then session.status 'completed'; the run never holds more than one      *)
(* result event, and after 'completed' no further model request is made.   *)
(***************************************************************************)
ZeroToolCallsCompletes ==
    /\ [][ (pc = "poststream" /\ Len(toolCalls) = 0) =>
             /\ Len(events') >= 3
             /\ LET last3 == Suffix(events', 3) IN
                  /\ last3[1].type = "assistant" /\ last3[1].sub = "text"
                  /\ last3[1].text = DeltaText(events)
                  /\ last3[2].type = "result" /\ last3[2].is_error = FALSE
                  /\ last3[2].text = DeltaText(events)
                  /\ last3[3].type = "session.status" /\ last3[3].sub = "completed"
             /\ Len(OfType(events', "assistant")) = 1
             /\ Len(OfType(events', "result")) = 1
             /\ nResult' = 1
             /\ nCompleted' = 1 ]_vars
    /\ [][ nCompleted >= 1 => requests' = requests ]_vars
    /\ [](nResult <= 1)

\* a two-chunk text answer was completed in the third iteration
ZeroToolCallsWitness ==
    /\ pc = "done"
    /\ iterationCount = 3
    /\ assistantMessage = << "Hi", "Hi" >>
    /\ nResult = 1 /\ nCompleted = 1 /\ nError = 0
    /\ ~aborted

(***************************************************************************)
(* C2: if every model response contains at least one tool call and abort   *)
(* is never called, the loop submits exactly MAX_ITERATIONS requests, never *)
(* more, and ends with a session.status 'error' naming the iteration       *)
(* limit.                                                                  *)
(***************************************************************************)
BudgetStopsAtCap ==
    /\ requests <= MAX_ITERATIONS
    /\ (pc = "done" /\ requests >= 1 /\ allHadTools /\ ~aborted) =>
         /\ requests = MAX_ITERATIONS
         /\ events # << >>
         /\ events[Len(events)] = StatusError(MaxIterationsError)

(***************************************************************************)
(* C3: a run in which a zero-tool-call response arrives on any iteration   *)
(* up to and including the cap ends with session.status 'completed' and    *)
(* never sends a session.status 'error'.                                   *)
(***************************************************************************)
CompletedNeverErrors == nCompleted >= 1 => nError = 0

(***************************************************************************)
(* C4: once the loop has found the abort flag set at a poll point (between *)
(* stream chunks, between tool executions, at the loop condition), no      *)
(* result event is sent and the run is not reported completed.             *)
(***************************************************************************)
AbortEmitsNoResult == abortSeen # "" => (nResult = 0 /\ nCompleted = 0)

(***************************************************************************)
(* C5: when abort is seen between stream chunks the partial response is    *)
(* discarded: no assistant message or tool_use event is sent for it,       *)
(* nothing of it is recorded, and no tool call of it is executed.          *)
(***************************************************************************)
AbortDiscardsPartialResponse ==
    abortSeen = "stream" =>
        /\ OfType(events, "assistant") = << >>
        /\ db = << >>
        /\ toolResults = << >>
        /\ pc # "tool"

(***************************************************************************)
(* C6: a tool call whose argument string is not valid JSON fails alone:    *)
(* the iteration goes on to the execution loop and no session.status       *)
(* 'error' is sent.                                                        *)
(***************************************************************************)
ParseErrorFailsOnlyThatCall ==
    [][ ( /\ pc = "poststream"
          /\ Len(toolCalls) > 0
          /\ ~HasHole(toolCalls)
          /\ \E k \in 1..Len(toolCalls) :
               ParseArguments(toolCalls[k].arguments) = "SyntaxError" )
        => (pc' = "toolloop" /\ nError' = nError) ]_vars

(***************************************************************************)
(* C7: for every slot and every interleaving of fragments, the assembled   *)
(* call of the slot has as arguments the concatenation, in arrival order,  *)
(* of the argument fragments received for the slot, and the id (generated  *)
(* when absent) and name of the first fragment of the slot; a slot without *)
(* fragments holds no call. The fragments {index 0, id c1, name Read,      *)
(* '{"pa'} and {index 0, 'th":"x"}'} give the one call c1, Read,           *)
(* '{"path":"x"}'.                                                         *)
(***************************************************************************)
FragsOf(i) == SelectSeq(received, LAMBDA f : f.index = i)

RECURSIVE ConcatArgs(_)
ConcatArgs(fs) ==
    IF fs = << >> THEN "" ELSE Head(fs).arguments \o ConcatArgs(Tail(fs))

ExampleFragments ==
    << Fragment(0, "c1", "Read", "{\"pa"), Fragment(0, "", "", "th\":\"x\"}") >>

AssemblerConcatenates ==
    /\ \A i \in { f.index : f \in AsmFragments } \ { Undefined } :
         LET fs == FragsOf(i) IN
         IF fs = << >>
         THEN ~Filled(toolCalls, i)
         ELSE /\ Filled(toolCalls, i)
              /\ toolCalls[i + 1].arguments = ConcatArgs(fs)
              /\ toolCalls[i + 1].name = fs[1].name
              /\ toolCalls[i + 1].id = IF fs[1].id # "" THEN fs[1].id ELSE GenId(i)
    /\ received = ExampleFragments =>
         toolCalls = << [filled |-> TRUE, id |-> "c1", name |-> "Read",
                         arguments |-> "{\"path\":\"x\"}"] >>

\* the example of the claim has been assembled
AssemblerWitness ==
    /\ received = ExampleFragments
    /\ Len(toolCalls) = 1
    /\ toolCalls[1].arguments = "{\"path\":\"x\"}"

(***************************************************************************)
(* C8: unfilled holes are skipped: when the assembled array has a hole and *)
(* every filled slot carries parsable arguments, the tool_use events are   *)
(* those of the filled slots in ascending order and the iteration goes on  *)
(* to execute them, without failing.                                       *)
(***************************************************************************)
HolesAreSkipped ==
    [][ ( /\ pc = "poststream"
          /\ HasHole(toolCalls)
          /\ \A k \in 1..Len(toolCalls) :
               toolCalls[k].filled =>
                   ParseArguments(toolCalls[k].arguments) = "object" )
        => /\ pc' = "toolloop"
           /\ nError' = nError
           /\ IdsOf(SelectSeq(events', LAMBDA e : e.sub = "tool_use"))
                = FilledIds(toolCalls) ]_vars

(***************************************************************************)
(* C9: when the new prompt equals the text of the last user_prompt event   *)
(* of the log, the history gets no further user message (the log           *)
(* [user_prompt "hi"] with prompt "hi" gives exactly [system, user "hi"]); *)
(* when it differs from the last seen user prompt, exactly one freshly     *)
(* formatted user message for it is the last message.                      *)
(***************************************************************************)
UserPrompts(L) == SelectSeq(L, LAMBDA e : e.type = "user_prompt")

\* text of the last user_prompt event of L, empty when L has none
LastSeenPrompt(L) ==
    IF UserPrompts(L) = << >> THEN << >>
    ELSE UserPrompts(L)[Len(UserPrompts(L))].prompt

UserMessages(msgs) == SelectSeq(msgs, LAMBDA m : m.role = "user")

Fresh(p) == Msg("user", << "initial_prompt.txt[", "date", "|" >> \o p \o << "]" >>)

NoDuplicatePrompt ==
    pc = "loopcheck" =>
        /\ (UserPrompts(log) # << >> /\ prompt = LastSeenPrompt(log)) =>
             /\ Len(UserMessages(messages)) = Len(UserPrompts(log))
             /\ UserMessages(messages)[Len(UserPrompts(log))].content = prompt
             /\ \A k \in 1..Len(messages) : messages[k] # Fresh(prompt)
        /\ prompt # LastSeenPrompt(log) =>
             /\ Len(UserMessages(messages)) = Len(UserPrompts(log)) + 1
             /\ messages[Len(messages)] = Fresh(prompt)
             /\ Cardinality({ k \in 1..Len(messages) : messages[k] = Fresh(prompt) }) = 1
        /\ (log = << LogEvent("user_prompt", << "hi" >>, << >>, << >>) >>
            /\ prompt = << "hi" >>) =>
             messages = << Msg("system", << "system.txt" >>), Msg("user", << "hi" >>) >>

\* the resubmission scenario of the claim has been built
NoDuplicatePromptWitness ==
    /\ pc = "loopcheck"
    /\ log = << LogEvent("user_prompt", << "hi" >>, << >>, << >>) >>
    /\ prompt = << "hi" >>
    /\ Len(messages) = 2

(***************************************************************************)
(* C10: executeTool never throws: an unknown tool name gives success false *)
(* with an 'Unknown tool' error, an exception of a tool body gives success *)
(* false with the exception's message; after either the loop appends the   *)
(* tool result and goes on, sending no session.status 'error'.             *)
(***************************************************************************)
ExecuteToolNeverThrows ==
    /\ [] ( lastResult.called =>
              /\ ~lastResult.result.thrown
              /\ lastResult.toolName \notin Registry =>
                   /\ ~lastResult.result.success
                   /\ lastResult.result.error = << "Unknown tool: ", lastResult.toolName >>
              /\ (lastResult.toolName \in Registry /\ lastResult.body = "throw") =>
                   /\ ~lastResult.result.success
                   /\ lastResult.result.error[Len(lastResult.result.error)] = "boom" )
    /\ [][ (pc = "tool" /\ pc' # "tool") =>
             /\ pc' = "toolloop"
             /\ nError' = nError
             /\ Len(toolResults') = Len(toolResults) + 1
             /\ toolResults'[Len(toolResults')].tool_call_id = toolCalls[toolIdx + 1].id
             /\ ~lastResult'.result.success =>
                  toolResults'[Len(toolResults')].content
                    = << "Error: " >> \o lastResult'.result.error ]_vars

\* a tool body threw, an unknown tool was called next, and the loop went on
\* to its next request
ExecuteToolWitness ==
    /\ pc = "request"
    /\ iterationCount = 2
    /\ Len(messages) >= 2
    /\ messages[Len(messages)].role = "tool"
    /\ messages[Len(messages)].content = << "Error: ", "Unknown tool: ", "Nope" >>
    /\ messages[Len(messages) - 1].role = "tool"
    /\ messages[Len(messages) - 1].content = << "Error: ", "boom" >>

(***************************************************************************)
(* C11. For every path p, isPathSafe(p) is true exactly when the path that *)
(* leads from the working directory to the resolved p has no leading ".."  *)
(* segment and is not absolute; so every path that resolves inside the     *)
(* working directory is accepted and every path that resolves outside it   *)
(* is rejected.                                                            *)
(***************************************************************************)
\* the resolved path lies in the working directory or below it
PathInside(c, path) ==
    LET w == ResolvedSegments(<< "/" >>, c)
        t == ResolvedSegments(c, path)
    IN  CommonPrefix(w, t) = Len(w)

\* the relative path begins with a parent-directory segment
LeadsUp(c, path) ==
    LET rel == RelativeSegments(c, Resolve(c, path))
    IN  rel # << >> /\ Head(rel) = << ".", "." >>

PathSafeIffInside ==
    pathChecked =>
        /\ isSafe <=> (~LeadsUp(cwd, filePath)
                        /\ ~IsAbsolute(Relative(cwd, Resolve(cwd, filePath))))
        /\ isSafe <=> PathInside(cwd, filePath)

(***************************************************************************)
(* C12. Tool calls run one at a time: the calls of an iteration start in   *)
(* the order of the assembled list, each only after the one before it has  *)
(* returned, and the next model request is submitted only after every tool *)
(* call of the iteration has returned.                                     *)
(***************************************************************************)
\* the starts (permission.request) and returns (tool_result) of tool calls
\* among the events of the iteration
ToolTrace ==
    SelectSeq(events, LAMBDA e : \/ e.type = "permission.request"
                                 \/ (e.type = "user" /\ e.sub = "tool_result"))

\* start of call 1, return of call 1, start of call 2, return of call 2, ...
StartsAndReturnsAlternate ==
    /\ \A k \in 1..Len(ToolTrace) :
         LET call == toolCalls[(k + 1) \div 2] IN
         IF k % 2 = 1
         THEN ToolTrace[k].type = "permission.request"
              /\ ToolTrace[k].id = call.id /\ ToolTrace[k].name = call.name
         ELSE ToolTrace[k].type = "user" /\ ToolTrace[k].id = call.id
    /\ (pc = "tool") <=> (Len(ToolTrace) % 2 = 1)
    /\ pc = "tool" => toolIdx = Len(ToolTrace) \div 2

\* a request that follows an iteration follows the return of all its calls
RequestAfterAllReturned ==
    (pc = "loopcheck" /\ pc' = "request" /\ requests >= 1) =>
        /\ Len(toolCalls) >= 1
        /\ Len(ToolTrace) = 2 * Len(toolCalls)
        /\ Len(toolResults) = Len(toolCalls)
        /\ \A k \in 1..Len(toolCalls) : toolResults[k].tool_call_id = toolCalls[k].id

ToolsRunSequentially ==
    /\ []StartsAndReturnsAlternate
    /\ [][RequestAfterAllReturned]_vars

\* the second call of an iteration is executing, the first has returned
ToolsRunSequentiallyWitness ==
    /\ pc = "tool"
    /\ toolIdx = 1
    /\ Len(toolCalls) = 2
    /\ Len(toolResults) = 1
    /\ requests >= 2

(***************************************************************************)
(* C13. In the message list of every model request, each tool-result       *)
(* message carries the id of a tool call of the nearest assistant message  *)
(* before it, and an assistant message with k tool calls is followed by    *)
(* exactly k tool-result messages, one per call, in the order of the calls.*)
(***************************************************************************)
\* position of the nearest assistant message before position i, 0 if none
NearestAssistant(msgs, i) ==
    LET before == { j \in 1..(i - 1) : msgs[j].role = "assistant" }
    IN  IF before = {} THEN 0 ELSE CHOOSE j \in before : \A h \in before : h <= j

ToolResultsPaired(msgs) ==
    /\ \A i \in 1..Len(msgs) :
         msgs[i].role = "tool" =>
            LET j == NearestAssistant(msgs, i) IN
            /\ j > 0
            /\ i - j <= Len(msgs[j].tool_calls)
            /\ msgs[i].tool_call_id = msgs[j].tool_calls[i - j].id
    /\ \A j \in 1..Len(msgs) :
         msgs[j].role = "assistant" =>
            LET k == Len(msgs[j].tool_calls) IN
            /\ j + k <= Len(msgs)
            /\ \A n \in 1..k :
                 /\ msgs[j + n].role = "tool"
                 /\ msgs[j + n].tool_call_id = msgs[j].tool_calls[n].id
            /\ j + k < Len(msgs) => msgs[j + k + 1].role # "tool"

RequestMessagesPaired == pc = "request" => ToolResultsPaired(messages)

\* a request whose message list holds an assistant message with two tool
\* calls and their two results
RequestMessagesPairedWitness ==
    /\ pc = "request"
    /\ \E j \in 1..Len(messages) :
         /\ messages[j].role = "assistant"
         /\ Len(messages[j].tool_calls) = 2
         /\ Len(messages) = j + 2

(***************************************************************************)
(* C14. When the model request or the stream fails, the failure is caught  *)
(* at the outer boundary of the loop: exactly one session.status 'error'   *)
(* event with the stringified cause is sent, the run ends there, and no    *)
(* further model request is submitted and no tool is executed.             *)
(***************************************************************************)
\* the request or the stream of this step fails
RequestOrStreamFails ==
    \/ pc = "request" /\ pc' \notin { "request", "stream" }
    \/ pc = "stream" /\ pc' \notin { "stream", "poststream" }

FailureIsCaught ==
    RequestOrStreamFails =>
        /\ pc' = "done"
        /\ nError = 0 /\ nError' = 1
        /\ events' = Append(events, StatusError(IF pc = "request"
                                                 THEN RequestError
                                                 ELSE StreamError))
        /\ UNCHANGED << requests, toolResults, lastResult, nResult, nCompleted >>

\* after the error status nothing happens any more
NothingAfterError == nError >= 1 => UNCHANGED vars

RequestFailureEndsRun ==
    /\ [][FailureIsCaught]_vars
    /\ [][NothingAfterError]_vars
    /\ [](nError >= 1 => pc = "done")

\* the stream of the second iteration failed after a chunk had arrived
RequestFailureEndsRunWitness ==
    /\ pc = "done"
    /\ requests = 2
    /\ nChunks = 1
    /\ nError = 1
    /\ events # << >>
    /\ events[Len(events)] = StatusError(StreamError)

(***************************************************************************)
(* C15. When the settings are absent, or the base URL or the model is      *)
(* missing, the run fails at once: it sends a session.status 'error' event *)
(* and no system init message, calls no session update, submits no model   *)
(* request and executes no tool.                                           *)
(***************************************************************************)
SettingsIncomplete ==
    ~guiSettings.present \/ guiSettings.baseUrl = "" \/ guiSettings.model = ""

MissingSettingsFailFast ==
    (SettingsIncomplete /\ pc # "init") =>
        /\ pc = "done"
        /\ events = << StatusError(ConfigError) >>
        /\ nError = 1
        /\ initTools = << >>
        /\ sessionUpdates = 0
        /\ requests = 0
        /\ requestTools = << >>
        /\ toolResults = << >>
        /\ ~lastResult.called
        /\ messages = << >>

\* the run has ended on settings that hold a model and no base URL
MissingSettingsFailFastWitness ==
    /\ pc = "done"
    /\ guiSettings.present
    /\ guiSettings.baseUrl = ""
    /\ guiSettings.model = "m"
    /\ nError = 1

(***************************************************************************)
(* C16. The Memory tool is in the tool schema submitted to the model, and  *)
(* in the tool list of the system init message, only when enableMemory is  *)
(* set in the settings; with the flag off the schema holds the other eight *)
(* tools and not Memory.                                                   *)
(***************************************************************************)
Names(q) == { q[k] : k \in 1..Len(q) }

MemoryOnlyWhenEnabled ==
    /\ initTools # << >> =>
          ("Memory" \in Names(initTools) => guiSettings.enableMemory)
    /\ requests >= 1 =>
          /\ "Memory" \in Names(requestTools) => guiSettings.enableMemory
          /\ ~guiSettings.enableMemory =>
                Names(requestTools) = Names(ALL_TOOL_DEFINITIONS) \ { "Memory" }

(***************************************************************************)
(* C17. A tool result with success false does not end the loop: a          *)
(* tool-result message with the error text is appended, the remaining      *)
(* calls of the iteration are still executed, the next model request is    *)
(* submitted with the error in its message list, and no session.status     *)
(* 'error' is sent because of it.                                          *)
(***************************************************************************)
\* executeTool returns a failure in this step
ToolFails == pc = "tool" /\ pc' # "tool" /\ ~lastResult'.result.success

FailureBecomesToolMessage ==
    ToolFails =>
        LET call == toolCalls[toolIdx + 1]
            err == << "Error: " >> \o lastResult'.result.error
        IN  /\ pc' = "toolloop"
            /\ toolIdx' = toolIdx + 1
            /\ Len(toolResults') = Len(toolResults) + 1
            /\ toolResults'[Len(toolResults')].role = "tool"
            /\ toolResults'[Len(toolResults')].tool_call_id = call.id
            /\ toolResults'[Len(toolResults')].content = err
            /\ nError' = 0

\* a result in toolResults is a failure
SomeFailed == \E k \in 1..Len(toolResults) : toolResults[k].content[1] = "Error: "

\* after a failure the loop goes on as it does after a success: to the next
\* call, then to the loop test, then to the next request
LoopGoesOnAfterFailure ==
    (SomeFailed /\ pc \in { "toolloop", "loopcheck" }) =>
        /\ nError = 0
        /\ (pc = "toolloop" /\ toolIdx < Len(toolCalls) /\ ~aborted
               /\ ToolStartThrows(toolCalls[toolIdx + 1]) = << >>) => pc' = "tool"
        /\ (pc = "toolloop" /\ toolIdx = Len(toolCalls)) =>
               pc' = "loopcheck" /\ Suffix(messages', Len(toolResults)) = toolResults
        /\ (pc = "loopcheck" /\ LoopGuard) =>
               /\ pc' = "request"
               /\ requests' = requests + 1
               /\ Suffix(messages', Len(toolResults)) = toolResults

FailedToolDoesNotEndLoop ==
    /\ [][FailureBecomesToolMessage]_vars
    /\ [][LoopGoesOnAfterFailure]_vars

\* a request is submitted whose message list ends with a failed result
\* followed by a successful one
FailedToolDoesNotEndLoopWitness ==
    /\ pc = "request"
    /\ requests >= 2
    /\ nError = 0
    /\ Len(messages) >= 3
    /\ messages[Len(messages) - 1].role = "tool"
    /\ messages[Len(messages) - 1].content[1] = "Error: "
    /\ messages[Len(messages)].role = "tool"
    /\ messages[Len(messages)].content = << "Success" >>

(***************************************************************************)
(* C18. Cancellation is cooperative: once abort() has been called, a tool  *)
(* that is executing runs to completion and its result is appended and     *)
(* sent, no later tool call of the iteration is started (no permission     *)
(* request, no execution), and no further model request is submitted.      *)
(***************************************************************************)
\* the tool in flight when abort() was called returns, and its result is
\* kept and sent
RunningToolCompletes ==
    (aborted /\ pc = "tool" /\ pc' # "tool") =>
        LET call == toolCalls[toolIdx + 1] IN
        /\ lastResult'.called
        /\ toolResults' = Append(toolResults, ToolMsg(call, lastResult'.result))
        /\ events' = Append(events, UserToolResult(call, lastResult'.result))
        /\ pc' = "toolloop"

\* after abort() no tool is started and no request is submitted
NothingStartsAfterAbort ==
    aborted =>
        /\ requests' = requests
        /\ pc' = "tool" => pc = "tool"
        /\ pc' = "request" => pc = "request"
        /\ Len(OfType(events', "permission.request"))
             <= Len(OfType(events, "permission.request"))

\* the results gathered before the abort was seen are pushed to the history
AbortedIterationKeepsResults ==
    (aborted /\ pc = "toolloop") =>
        pc' = "loopcheck" /\ messages' = messages \o toolResults

CancellationIsCooperative ==
    /\ [][RunningToolCompletes]_vars
    /\ [][NothingStartsAfterAbort]_vars
    /\ [][AbortedIterationKeepsResults]_vars

\* abort() came while the first of two tools was executing: its result is
\* kept, the second tool was not started, the run has ended
CancellationIsCooperativeWitness ==
    /\ aborted
    /\ pc = "done"
    /\ Len(toolCalls) = 2
    /\ Len(toolResults) = 1
    /\ lastResult.called
    /\ abortSeen = "while"
    /\ Len(OfType(events, "permission.request")) = 1
    /\ Len(SelectSeq(events, LAMBDA e : e.sub = "tool_result")) = 1

(***************************************************************************)
(* C19. The history built from a persisted log starts with exactly one     *)
(* system message, holds one user message per user_prompt event in log     *)
(* order, and holds exactly one assistant message for each maximal run of  *)
(* text and tool_result events between user prompts (or before the end of  *)
(* the log) whose accumulated text is not blank, placed before the next    *)
(* user message; tool_result events appear only inside that text, and      *)
(* events of other kinds are skipped without splitting a run.              *)
(***************************************************************************)
\* positions of the user_prompt events of L, ascending
PromptPositions(L) ==
    SelectSeq([k \in 1..Len(L) |-> k], LAMBDA k : L[k].type = "user_prompt")

\* text of the events of L strictly between positions a and b
RECURSIVE RunText(_, _, _)
RunText(L, a, b) ==
    IF a + 1 >= b THEN << >>
    ELSE RunText(L, a, b - 1)
         \o (IF L[b - 1].type = "text" THEN L[b - 1].text
             ELSE IF L[b - 1].type = "tool_result"
                  THEN << "\n", "[Tool Output: " >> \o L[b - 1].output \o << "]", "\n" >>
                  ELSE << >>)

\* a text is blank when it holds whitespace only
Blank(text) == \A k \in 1..Len(text) : text[k] \in { " ", "\n" }

\* the assistant message of one run, if its text is not blank
RunMessage(L, a, b) ==
    IF Blank(RunText(L, a, b)) THEN << >>
    ELSE << [role |-> "assistant", content |-> Trim(RunText(L, a, b)),
             tool_calls |-> << >>, tool_call_id |-> "", name |-> ""] >>

\* run, user message, run, user message, ..., last run
RECURSIVE RunsAndPrompts(_, _, _)
RunsAndPrompts(L, cuts, prev) ==
    IF cuts = << >> THEN RunMessage(L, prev, Len(L) + 1)
    ELSE RunMessage(L, prev, Head(cuts))
         \o << [role |-> "user", content |-> L[Head(cuts)].prompt,
                tool_calls |-> << >>, tool_call_id |-> "", name |-> ""] >>
         \o RunsAndPrompts(L, Tail(cuts), Head(cuts))

\* the messages that stem from the log: all but the system message and the
\* user message of the new prompt
FromLog(msgs) ==
    IF prompt # LastSeenPrompt(log) THEN SubSeq(msgs, 2, Len(msgs) - 1)
    ELSE SubSeq(msgs, 2, Len(msgs))

HistoryFollowsLog ==
    pc = "loopcheck" =>
        /\ messages[1].role = "system"
        /\ Cardinality({ k \in 1..Len(messages) : messages[k].role = "system" }) = 1
        /\ \A k \in 1..Len(messages) : messages[k].role \in { "system", "user", "assistant" }
        /\ FromLog(messages) = RunsAndPrompts(log, PromptPositions(log), 0)

\* a blank run, a user prompt, then a run made of a tool result
HistoryFollowsLogWitness ==
    /\ pc = "loopcheck"
    /\ Len(log) = 3
    /\ log[1].type = "text" /\ log[1].text = << " " >>
    /\ log[2].type = "user_prompt" /\ log[2].prompt = << "hi" >>
    /\ log[3].type = "tool_result"
    /\ prompt = << "yo" >>
    /\ Len(messages) = 4
    /\ messages[3].role = "assistant"

(***************************************************************************)
(* C20. For every tool call that is executed, exactly one                  *)
(* permission.request event with the call's id and name is sent before the *)
(* tool starts, and the execution then proceeds unconditionally: in no     *)
(* state does the loop wait for an allow or deny answer.                   *)
(***************************************************************************)
Permissions(q) == OfType(q, "permission.request")

\* one permission request per call started, none for the others
OnePermissionPerStartedCall ==
    /\ Len(Permissions(events))
         = Len(toolResults) + (IF pc = "tool" THEN 1 ELSE 0)
    /\ \A k \in 1..Len(Permissions(events)) :
         /\ Permissions(events)[k].id = toolCalls[k].id
         /\ Permissions(events)[k].name = toolCalls[k].name

\* executeTool is called in the step that sends the permission request
PermissionThenExecution ==
    /\ (pc # "tool" /\ pc' = "tool") =>
          events' = Append(events, PermissionRequest(toolCalls[toolIdx + 1]))
    /\ Len(Permissions(events')) > Len(Permissions(events)) =>
          /\ pc' = "tool"
          /\ Len(Permissions(events')) = Len(Permissions(events)) + 1
    /\ (pc = "tool" /\ pc' # "tool") =>
          /\ lastResult'.called
          /\ lastResult'.toolName = toolCalls[toolIdx + 1].name
          /\ events'[Len(events')].type = "user"
          /\ events'[Len(events')].id = toolCalls[toolIdx + 1].id

PermissionRequestNeverBlocks ==
    /\ []OnePermissionPerStartedCall
    /\ [][PermissionThenExecution]_vars

\* two calls were executed, each after its own permission request
PermissionRequestNeverBlocksWitness ==
    /\ pc = "toolloop"
    /\ Len(toolCalls) = 2
    /\ toolIdx = 2
    /\ Len(Permissions(events)) = 2
    /\ Permissions(events)[1].id # Permissions(events)[2].id
    /\ lastResult.called

(***************************************************************************)
(* C21. In each iteration the stream events follow the pattern start,      *)
(* delta+, stop: content_block_start is sent once, before the first        *)
(* content_block_delta; one delta is sent per chunk that carries text, in  *)
(* arrival order, and the text buffer is the concatenation of the deltas;  *)
(* when the stream has ended content_block_stop is sent once exactly when  *)
(* some text chunk was received; an iteration without text sends none of   *)
(* the three.                                                              *)
(***************************************************************************)
StreamEvents == OfType(events, "stream_event")

CountSub(q, sub) == Len(SelectSeq(q, LAMBDA e : e.sub = sub))

\* start, then deltas, then possibly stop, and nothing else
StartDeltasStop ==
    LET q == StreamEvents IN
    /\ q # << >> =>
          /\ q[1] = BlockStart
          /\ Len(q) >= 2
          /\ \A k \in 2..Len(q) :
                \/ q[k].sub = "content_block_delta"
                \/ (k = Len(q) /\ k >= 3 /\ q[k] = BlockStop)
    /\ DeltaText(events) = assistantMessage
    /\ assistantMessage = << >> => q = << >>
    /\ CountSub(q, "content_block_stop") = 1 => pc \notin { "request", "stream", "poststream" }

\* what one chunk adds: nothing without text; otherwise one delta with the
\* chunk's text, preceded by start when it is the first
ChunkAddsOneDelta ==
    (pc = "stream" /\ nChunks' = nChunks + 1 /\ ~aborted) =>
        LET added == SubSeq(events', Len(events) + 1, Len(events'))
            text == SubSeq(assistantMessage', Len(assistantMessage) + 1,
                           Len(assistantMessage'))
        IN  /\ SubSeq(events', 1, Len(events)) = events
            /\ SubSeq(assistantMessage', 1, Len(assistantMessage)) = assistantMessage
            /\ text = << >> => added = << >>
            /\ text # << >> =>
                  added = (IF CountSub(events, "content_block_start") = 0
                           THEN << BlockStart >> ELSE << >>)
                          \o << BlockDelta(text) >>

\* after the stream loop: stop once if text was received, else not at all
StopIffText ==
    (pc = "poststream" /\ pc' # "poststream") =>
        CountSub(events', "content_block_stop")
            = (IF assistantMessage # << >> THEN 1 ELSE 0)

StreamEventsWellFormed ==
    /\ []StartDeltasStop
    /\ [][ChunkAddsOneDelta]_vars
    /\ [][StopIffText]_vars

\* two text chunks were received and the stream has ended
StreamEventsWellFormedWitness ==
    /\ pc = "exit"
    /\ Len(StreamEvents) = 4
    /\ StreamEvents[1] = BlockStart
    /\ StreamEvents[2].sub = "content_block_delta"
    /\ StreamEvents[3].sub = "content_block_delta"
    /\ StreamEvents[4] = BlockStop
    /\ Len(assistantMessage) = 2

(***************************************************************************)
(* C22. When the Tavily key is absent at the construction of the executor, *)
(* every WebSearch and ExtractPageContent call returns a failed result     *)
(* with a configuration error and the Tavily service is never called;      *)
(* whether the web tools are available is fixed at construction.           *)
(***************************************************************************)
NotAvailable(what) ==
    << what, " is not available. Please configure Tavily API key in Settings." >>

\* a call of a web tool on an executor built without a key
UnavailableCallFails ==
    (guiSettings.tavilyApiKey = "" /\ lastResult' # lastResult
       /\ lastResult'.toolName \in { "WebSearch", "ExtractPageContent" }) =>
        /\ ~lastResult'.result.thrown
        /\ ~lastResult'.result.success
        /\ lastResult'.result.error =
             NotAvailable(IF lastResult'.toolName = "WebSearch"
                          THEN "Web search" ELSE "Page extraction")
        /\ fetches' = fetches

AvailabilityIsFixed ==
    /\ webSearchTool' = webSearchTool
    /\ extractPageTool' = extractPageTool
    /\ webSearchTool = (guiSettings.tavilyApiKey # "")
    /\ extractPageTool = (guiSettings.tavilyApiKey # "")

WebToolsNeedCredential ==
    /\ [][UnavailableCallFails]_vars
    /\ [][AvailabilityIsFixed]_vars
    /\ [](guiSettings.tavilyApiKey = "" => fetches = 0)

\* the executor was built without a key, a key was stored afterwards, and a
\* WebSearch call has still been refused
WebToolsNeedCredentialWitness ==
    /\ guiSettings.tavilyApiKey = ""
    /\ savedKey = "tvly-key"
    /\ lastResult.called
    /\ lastResult.toolName = "WebSearch"
    /\ lastResult.result.error = NotAvailable("Web search")
    /\ fetches = 0

(***************************************************************************)
(* C23. A run sends at most one session.status event: 'completed' and      *)
(* 'error' never both occur, neither occurs twice, and no event is sent    *)
(* after a session.status 'completed'.                                     *)
(***************************************************************************)
NothingAfterCompleted == nCompleted >= 1 => events' = events

AtMostOneSessionStatus ==
    /\ [](nCompleted + nError <= 1)
    /\ [][NothingAfterCompleted]_vars

(***************************************************************************)
(* C24. When abort() is never called and every model stream and every tool *)
(* execution comes to an end, the run eventually sends a terminal          *)
(* session.status event (completed or error): no run that was not aborted  *)
(* ends silently.                                                          *)
(***************************************************************************)
RunEndsWithStatus == <>(pc = "done" /\ ~aborted /\ nCompleted + nError >= 1)

\* a run that was not aborted has used all its iterations and ended
RunEndsWithStatusWitness ==
    /\ pc = "done"
    /\ ~aborted
    /\ iterationCount = MAX_ITERATIONS
    /\ nCompleted = 0
    /\ nError = 1

(***************************************************************************)
(* C25. Every content_block_start sent in an iteration is followed by a    *)
(* content_block_stop before the run ends or the next iteration begins,    *)
(* however the stream ends: normal close, abort seen after text was sent,  *)
(* or stream failure after text was sent.                                  *)
(***************************************************************************)
Unclosed(q) == CountSub(q, "content_block_start") > CountSub(q, "content_block_stop")

ClosedWhenRunEnds == (pc # "done" /\ pc' = "done") => ~Unclosed(events')

ClosedWhenNextIterationBegins ==
    (pc = "loopcheck" /\ pc' = "request") => ~Unclosed(events)

EveryStartIsStopped ==
    /\ [][ClosedWhenRunEnds]_vars
    /\ [][ClosedWhenNextIterationBegins]_vars

(***************************************************************************)
(* C26. For every event log and every non-empty new prompt P, the last     *)
(* message of the history submitted in the first model request is a user   *)
(* message, either the freshly formatted P or the replayed user_prompt     *)
(* equal to P; the history never ends with an assistant message when a     *)
(* prompt was supplied.                                                    *)
(***************************************************************************)
HistoryEndsWithUser ==
    (pc = "loopcheck" /\ prompt # << >>) =>
        LET last == messages[Len(messages)] IN
        /\ last.role = "user"
        /\ last = Fresh(prompt) \/ last.content = prompt
====
